---- MODULE Spec2Model ----
(***************************************************************************)
(* A model of app.py, the image-sequence to MP4/GIF generator:             *)
(*   - the timing arithmetic of create_mp4 (encode FPS, repeat factor,     *)
(*     loop count), including the binary64 arithmetic that Python uses     *)
(*     for "/" and round();                                                *)
(*   - the frame loader process_images (filter, numeric sort, decode,      *)
(*     resize);                                                            *)
(*   - the interactive run of main(): prompts, loading, directory          *)
(*     creation and the per-speed rendering loop with its video writer.    *)
(***************************************************************************)
EXTENDS Integers, Sequences, FiniteSets

VARIABLES
    pc,                 \* where main() is
    dirs,               \* the directories that exist, of Directories
    files,              \* the artifacts under output/: [kind, fps, complete]
    choice,             \* handle_existing_output: the answer last read
    imageDir,           \* the images folder: [exists, entries]
    duration_str,       \* main: the duration line last read
    target_duration,    \* main: int(duration_str)
    fps_str,            \* main: the speeds line last read
    fps_options,        \* main: the parsed speeds
    processed_images,   \* main: what process_images returned
    cur,                \* main: the position of the for loop in fps_options
    calls,              \* the locals of each create_mp4 call, the current one last
    writers,            \* the video writers imageio.get_writer has made
    out,                \* the progress messages printed
    err                 \* the exception that ended the run, if any

vars == <<pc, dirs, files, choice, imageDir, duration_str, target_duration,
          fps_str, fps_options, processed_images, cur, calls, writers, out, err>>

(***************************************************************************)
(* Python values.  None and a value are told apart as <<>> and <<v>>.      *)
(***************************************************************************)
None == <<>>
Some(v) == <<v>>
Val(o) == o[1]

Max(a, b) == IF a >= b THEN a ELSE b

SetMin(S) == CHOOSE x \in S : \A y \in S : x <= y
SetMax(S) == CHOOSE x \in S : \A y \in S : x >= y

(***************************************************************************)
(* binary64 arithmetic.  A positive float is m * 2^e with a 53-bit         *)
(* significand 2^52 <= m < 2^53, kept as two limbs <<hi, lo>> of 27 bits   *)
(* (m = hi * 2^27 + lo), so that no intermediate value leaves 32 bits.     *)
(* Zero is the significand <<0, 0>>.                                        *)
(***************************************************************************)
Limb == 2^27

BigGE(a, b) == a[1] > b[1] \/ (a[1] = b[1] /\ a[2] >= b[2])

BigSub(a, b) ==
    IF a[2] >= b[2] THEN <<a[1] - b[1], a[2] - b[2]>>
    ELSE <<a[1] - b[1] - 1, a[2] + Limb - b[2]>>

\* a * 2^n for 0 <= n <= 27, the result below 2^54.
BigShl(a, n) == <<a[1] * 2^n + (a[2] \div 2^(27 - n)), (a[2] % 2^(27 - n)) * 2^n>>

BigDbl(a) == BigShl(a, 1)

BigInc(a) == IF a[2] + 1 = Limb THEN <<a[1] + 1, 0>> ELSE <<a[1], a[2] + 1>>

FloatZero == [m |-> <<0, 0>>, e |-> 0]

Big == Nat \X Nat

\* The significand m shifted left until its top bit is bit 52, the exponent
\* lowered by as much: eight places at a time while that fits, then one.
\* (A function, as LongDiv below: its argument is evaluated once, before
\* the application, and the recursion stays shallow.)
Normalize[s \in Big \X Int] ==
    IF s[1][1] >= 2^25 THEN [m |-> s[1], e |-> s[2]]
    ELSE IF s[1][1] < 2^18 THEN Normalize[<<BigShl(s[1], 8), s[2] - 8>>]
    ELSE Normalize[<<BigDbl(s[1]), s[2] - 1>>]

\* float(n) for an int 0 <= n < 2^27: exact.
FromInt(n) == IF n = 0 THEN FloatZero ELSE Normalize[<<<<0, n>>, 0>>]

\* The state of a long division: quotient so far, remainder, divisor.
DivState == [q : Big, r : Big, d : Big]

\* One step of binary long division of the remainder s.r < s.d by s.d: the
\* next quotient bit is shifted into s.q.
DivStep[s \in DivState] ==
    LET r2 == BigDbl(s.r)
    IN IF BigGE(r2, s.d)
       THEN [q |-> BigInc(BigDbl(s.q)), r |-> BigSub(r2, s.d), d |-> s.d]
       ELSE [q |-> BigDbl(s.q), r |-> r2, d |-> s.d]

\* LongDiv[<<s, k>>]: k steps of DivStep from s.
LongDiv[a \in DivState \X Nat] ==
    IF a[2] = 0 THEN a[1]
    ELSE IF a[2] >= 8
    THEN LongDiv[<<DivStep[DivStep[DivStep[DivStep[
                   DivStep[DivStep[DivStep[DivStep[a[1]]]]]]]]], a[2] - 8>>]
    ELSE LongDiv[<<DivStep[a[1]], a[2] - 1>>]

\* x / y for floats x >= 0, y > 0: the quotient rounded to nearest, ties to
\* even, as IEEE 754 division does.
FloatDiv(x, y) ==
    IF x.m = <<0, 0>> THEN FloatZero
    ELSE LET first == BigGE(x.m, y.m)
             steps == IF first THEN 52 ELSE 53
             qr    == LongDiv[<<[q |-> IF first THEN <<0, 1>> ELSE <<0, 0>>,
                                 r |-> IF first THEN BigSub(x.m, y.m) ELSE x.m,
                                 d |-> y.m], steps>>]
             r2    == BigDbl(qr.r)
             up    == (r2 # y.m /\ BigGE(r2, y.m)) \/ (r2 = y.m /\ qr.q[2] % 2 = 1)
             q1    == IF up THEN BigInc(qr.q) ELSE qr.q
             e     == x.e - y.e - steps
         IN IF q1[1] = 2^26 THEN [m |-> <<2^25, 0>>, e |-> e + 1]
            ELSE [m |-> q1, e |-> e]

\* Python's round(f) for a float 0 <= f < 2^31: the nearest int, an exact
\* half going to the even neighbour.
PyRound(f) ==
    LET j == 0 - f.e
        RoundAt(ip, frac, half) ==
            IF frac = half THEN ip + (ip % 2)
            ELSE IF BigGE(frac, half) THEN ip + 1 ELSE ip
    IN IF f.m = <<0, 0>> \/ j > 53 THEN 0
       ELSE IF j = 53 THEN (IF f.m = <<2^25, 0>> THEN 0 ELSE 1)
       ELSE IF j >= 28 THEN
            RoundAt(f.m[1] \div 2^(j - 27),
                    <<f.m[1] % 2^(j - 27), f.m[2]>>,
                    <<2^(j - 28), 0>>)
       ELSE RoundAt(f.m[1] * 2^(27 - j) + (f.m[2] \div 2^j),
                    <<0, f.m[2] % 2^j>>,
                    <<0, 2^(j - 1)>>)

(***************************************************************************)
(* create_mp4: the timing arithmetic.                                      *)
(***************************************************************************)
EncoderMinFPS == 10
FallbackFPS == 24

encode_fps(view_fps) == IF view_fps < EncoderMinFPS THEN FallbackFPS ELSE view_fps

\* Lines 89-91 without the round-up of line 91.
repeat_factor_floor(view_fps) == encode_fps(view_fps) \div view_fps

repeat_factor(view_fps) ==
    LET e == encode_fps(view_fps)
    IN (e \div view_fps) + (IF e % view_fps # 0 THEN 1 ELSE 0)

\* num_frames / view_fps, an int by an int: Python rounds the exact quotient
\* once, which for ints below 2^53 is the float division of the two.
sequence_duration(num_frames, view_fps) ==
    FloatDiv(FromInt(num_frames), FromInt(view_fps))

num_loops(duration, num_frames, view_fps) ==
    Max(1, PyRound(FloatDiv(FromInt(duration),
                            sequence_duration(num_frames, view_fps))))

\* The locals create_mp4 has set when it reaches the writer.
RenderPlan(view_fps, duration, num_frames) ==
    [view_fps      |-> view_fps,
     encode_fps    |-> encode_fps(view_fps),
     repeat_factor |-> repeat_factor(view_fps),
     num_frames    |-> num_frames,
     num_loops     |-> num_loops(duration, num_frames, view_fps)]

(***************************************************************************)
(* Text.  A str is a sequence of one-character strings.                    *)
(***************************************************************************)
DigitChars == <<"0", "1", "2", "3", "4", "5", "6", "7", "8", "9">>
Digits == {DigitChars[i] : i \in 1..10}
DigitVal(c) == (CHOOSE i \in 1..10 : DigitChars[i] = c) - 1
IsDigit(c) == c \in Digits

Whitespace == {" "}

\* The decimal numeral of the digits ds ("" counts 0), leading zeros allowed.
DigitsValue[ds \in Seq(Digits)] ==
    IF ds = <<>> THEN 0
    ELSE 10 * DigitsValue[SubSeq(ds, 1, Len(ds) - 1)] + DigitVal(ds[Len(ds)])

\* str.strip()
Strip(s) ==
    LET keep == {i \in 1..Len(s) : s[i] \notin Whitespace}
    IN IF keep = {} THEN <<>> ELSE SubSeq(s, SetMin(keep), SetMax(keep))

\* str.endswith(suffix)
EndsWith(s, suffix) ==
    /\ Len(s) >= Len(suffix)
    /\ SubSeq(s, Len(s) - Len(suffix) + 1, Len(s)) = suffix

\* str.split(sep) for a one-character sep: the pieces between the
\* separators, empty pieces kept.
Split(s, sep) ==
    LET cuts == {i \in 1..Len(s) : s[i] = sep}
        n == Cardinality(cuts) + 1
        CutAt(k) ==
            IF k = 0 THEN 0
            ELSE IF k = n THEN Len(s) + 1
            ELSE CHOOSE i \in cuts : Cardinality({j \in cuts : j < i}) = k - 1
    IN [k \in 1..n |-> SubSeq(s, CutAt(k - 1) + 1, CutAt(k) - 1)]

\* int(s): None for a ValueError.  Surrounding whitespace is dropped, one
\* sign may lead, and single underscores may separate digits.
ParseInt(s) ==
    LET t == Strip(s)
        signed == t # <<>> /\ t[1] \in {"+", "-"}
        body == IF signed THEN Tail(t) ELSE t
        valid ==
            /\ body # <<>>
            /\ \A i \in 1..Len(body) : IsDigit(body[i]) \/ body[i] = "_"
            /\ IsDigit(body[1])
            /\ IsDigit(body[Len(body)])
            /\ \A i \in 1..(Len(body) - 1) : ~(body[i] = "_" /\ body[i + 1] = "_")
        value == DigitsValue[SelectSeq(body, IsDigit)]
    IN IF ~valid THEN None
       ELSE IF t[1] = "-" THEN Some(0 - value) ELSE Some(value)

\* [int(fps.strip()) for fps in fps_str.split(',')]: None for a ValueError.
ParseFpsList(s) ==
    LET tokens == Split(s, ",")
        parsed == [k \in 1..Len(tokens) |-> ParseInt(Strip(tokens[k]))]
    IN IF \E k \in 1..Len(tokens) : parsed[k] = None THEN None
       ELSE Some([k \in 1..Len(tokens) |-> Val(parsed[k])])

\* re.search(r'(\d+)', f): None when f holds no digit, else the first
\* maximal run of digits.
FirstDigitRun(f) ==
    LET at == {i \in 1..Len(f) : IsDigit(f[i])}
    IN IF at = {} THEN None
       ELSE LET first == SetMin(at)
                last == SetMax({k \in first..Len(f) :
                                  \A j \in first..k : IsDigit(f[j])})
            IN Some(SubSeq(f, first, last))

(***************************************************************************)
(* process_images.  A directory entry is [name, readable, size]; a loaded  *)
(* frame is [name, size, mode].                                            *)
(***************************************************************************)
PngExt == <<".", "p", "n", "g">>

IsPng(entry) == EndsWith(entry.name, PngExt)

\* The sort key of line 24, for a name that holds a digit.
SortKey(name) == DigitsValue[Val(FirstDigitRun(name))]

\* A str ordering for the lexicographic order of names.
CharOrder == <<" ", "+", ",", "-", ".", "0", "1", "2", "3", "4", "5", "6", "7",
               "8", "9", "P", "_", "a", "b", "f", "g", "i", "m", "n", "p", "t", "x">>
CharRank(c) == CHOOSE i \in 1..Len(CharOrder) : CharOrder[i] = c
StrLess(a, b) ==
    \E k \in 1..(Len(b)) :
        /\ \A j \in 1..(k - 1) : j <= Len(a) /\ a[j] = b[j]
        /\ (k > Len(a) \/ CharRank(a[k]) < CharRank(b[k]))

\* files.sort() without the key: the names in str order.
SortFilesLexicographic(fs) ==
    LET n == Len(fs)
        Rank(i) == 1 + Cardinality({j \in 1..n : StrLess(fs[j].name, fs[i].name)})
    IN [r \in 1..n |-> fs[CHOOSE i \in 1..n : Rank(i) = r]]

\* files.sort(key=...): ascending by SortKey, entries of equal key in their
\* listing order (list.sort is stable).
SortFiles(fs) ==
    LET n == Len(fs)
        Before(j, i) ==
            \/ SortKey(fs[j].name) < SortKey(fs[i].name)
            \/ (SortKey(fs[j].name) = SortKey(fs[i].name) /\ j < i)
        Rank(i) == 1 + Cardinality({j \in 1..n : Before(j, i)})
    IN [r \in 1..n |-> fs[CHOOSE i \in 1..n : Rank(i) = r]]

\* The loader that passes over what it cannot use: a name without digits
\* or a file that does not decode is skipped.
process_images_skipping(dir) ==
    IF ~dir.exists THEN None
    ELSE LET usable(e) == IsPng(e) /\ FirstDigitRun(e.name) # None /\ e.readable
             fs == SortFiles(SelectSeq(dir.entries, usable))
         IN IF fs = <<>> THEN None
            ELSE Some([i \in 1..Len(fs) |->
                          [name |-> fs[i].name, size |-> fs[1].size, mode |-> "RGBA"]])

\* None for each failure the function catches, else the frames: sorted,
\* converted to RGBA, and resized to the size of the first.
process_images(dir) ==
    IF ~dir.exists THEN None                                  \* FileNotFoundError
    ELSE LET found == SelectSeq(dir.entries, IsPng)
         IN IF found = <<>> THEN None                         \* no PNG
            ELSE IF \E i \in 1..Len(found) : FirstDigitRun(found[i].name) = None
            THEN None                                         \* AttributeError in the key
            ELSE LET fs == SortFiles(found)
                 IN IF \E i \in 1..Len(fs) : ~fs[i].readable
                    THEN None                                 \* Image.open raises
                    ELSE Some([i \in 1..Len(fs) |->
                                  [name |-> fs[i].name,
                                   size |-> fs[1].size,
                                   mode |-> "RGBA"]])


(***************************************************************************)
(* What the run is given: the lines typed at the prompts and the content   *)
(* of the images folder.                                                   *)
(***************************************************************************)
MaxSpeeds == 2          \* speeds typed on one line, at most
MaxTypedDuration == 2   \* the largest duration typed
MaxFiles == 3           \* entries of the images folder, at most (LoaderSpec)
MaxViewFPS == 24        \* SchedSpec: the largest speed
MaxTargetDuration == 30 \* SchedSpec: the largest duration
MaxNumFrames == 18      \* SchedSpec: the longest frame sequence

\* The decimal numeral of 0 <= n <= 999, as a user types it.
Decimal(n) ==
    IF n < 10 THEN <<DigitChars[n + 1]>>
    ELSE IF n < 100 THEN <<DigitChars[(n \div 10) + 1], DigitChars[(n % 10) + 1]>>
    ELSE <<DigitChars[(n \div 100) + 1], DigitChars[((n \div 10) % 10) + 1],
           DigitChars[(n % 10) + 1]>>

FrameName(i) == <<"f", "-">> \o Decimal(i) \o PngExt

Entry(name, readable, width) ==
    [name |-> name, readable |-> readable, size |-> <<width, 100>>]

\* Answers to the archive-or-delete question.
ChoiceLines ==
    {<<"a">>, <<"A">>, <<"a", "r", "c", "h", "i", "v", "e">>,
     <<"d">>, <<"D", "e", "l", "e", "t", "e">>, <<"x">>, <<>>}

\* Answers to the duration prompt.
DurationLines ==
    {Decimal(n) : n \in 0..MaxTypedDuration}
        \cup {<<"-", "1">>, <<>>, <<"x">>, <<"1", ".", "5">>, <<" ", "1", " ">>}

\* Answers to the speeds prompt: up to MaxSpeeds numbers joined by commas,
\* and lines int() rejects (empty, not a number, a trailing comma).
FpsTokens == {<<"2">>, <<" ", "1", "2", " ">>, <<"0">>}

RECURSIVE JoinComma(_)
JoinComma(ts) ==
    IF Len(ts) = 1 THEN ts[1] ELSE ts[1] \o <<",">> \o JoinComma(Tail(ts))

FpsBadLines == {<<>>, <<"x">>, <<"2", ",">>}

FpsLines ==
    {JoinComma(ts) : ts \in UNION {[1..n -> FpsTokens] : n \in 1..MaxSpeeds}}
        \cup FpsBadLines

\* The images folder of a run.
MainDirs ==
    {[exists |-> FALSE, entries |-> <<>>],
     [exists |-> TRUE, entries |-> <<>>],
     [exists |-> TRUE, entries |-> <<Entry(<<"f", "-", "3", ".", "t", "x", "t">>, TRUE, 100)>>],
     [exists |-> TRUE, entries |-> <<Entry(FrameName(1), TRUE, 100),
                                     Entry(<<"b", ".", "p", "n", "g">>, TRUE, 100)>>],
     [exists |-> TRUE, entries |-> <<Entry(FrameName(2), FALSE, 100),
                                     Entry(FrameName(1), TRUE, 100)>>],
     [exists |-> TRUE, entries |-> <<Entry(FrameName(1), TRUE, 100)>>],
     [exists |-> TRUE, entries |-> <<Entry(FrameName(2), TRUE, 120),
                                     Entry(<<"f", "-", "3", ".", "t", "x", "t">>, FALSE, 100),
                                     Entry(FrameName(1), TRUE, 100)>>],
     [exists |-> TRUE, entries |-> <<Entry(FrameName(10), TRUE, 100),
                                     Entry(FrameName(2), TRUE, 120),
                                     Entry(FrameName(1), TRUE, 100)>>]}

\* The names a folder of LoaderSpec draws from.
NamePool ==
    {FrameName(1), FrameName(2), FrameName(10),
     <<"a", "1", "b", "2", "2", ".", "p", "n", "g">>,
     <<"b", ".", "p", "n", "g">>,
     <<"f", "-", "3", ".", "t", "x", "t">>}

\* Folders of up to MaxFiles entries with distinct names, in any listing
\* order (os.listdir promises none).
LoaderDirs ==
    {[exists |-> FALSE, entries |-> <<>>]} \cup
    {[exists |-> TRUE, entries |-> es] :
        es \in UNION {{s \in [1..n -> {Entry(nm, r, w) : nm \in NamePool,
                                                        r \in BOOLEAN,
                                                        w \in {100, 120}}] :
                          \A i, j \in 1..n : i # j => s[i].name # s[j].name} :
                      n \in 0..MaxFiles}}

(***************************************************************************)
(* The file system under the working directory.                            *)
(***************************************************************************)
OutputDirs == {"output", "output/mp4", "output/gif"}

\* os.path.exists(OUTPUT_BASE_DIR) and os.listdir(OUTPUT_BASE_DIR)
OutputNotEmpty == "output" \in dirs /\ dirs \cap {"output/mp4", "output/gif"} # {}

\* The artifact <kind, fps> written anew: whatever was at its path is gone.
SetFile(fs, kind, fps, complete) ==
    {f \in fs : ~(f.kind = kind /\ f.fps = fps)}
        \cup {[kind |-> kind, fps |-> fps, complete |-> complete]}

\* str.lower()
UpperCase == <<"A", "B", "C", "D", "E", "F", "G", "H", "I", "J", "K", "L", "M",
               "N", "O", "P", "Q", "R", "S", "T", "U", "V", "W", "X", "Y", "Z">>
LowerCase == <<"a", "b", "c", "d", "e", "f", "g", "h", "i", "j", "k", "l", "m",
               "n", "o", "p", "q", "r", "s", "t", "u", "v", "w", "x", "y", "z">>
Lower(s) ==
    [i \in 1..Len(s) |->
        IF \E k \in 1..26 : UpperCase[k] = s[i]
        THEN LowerCase[CHOOSE k \in 1..26 : UpperCase[k] = s[i]]
        ELSE s[i]]

(***************************************************************************)
(* main()                                                                  *)
(***************************************************************************)
Idle ==
    /\ choice = None
    /\ duration_str = None /\ target_duration = None
    /\ fps_str = None /\ fps_options = None
    /\ processed_images = None
    /\ cur = 0 /\ calls = <<>> /\ writers = <<>>
    /\ out = <<>> /\ err = ""

Init ==
    /\ pc = "start"
    /\ \/ dirs = {} /\ files = {}
       \/ dirs = {"output"} /\ files = {}
       \/ /\ dirs = OutputDirs
          /\ files = {[kind |-> "mp4", fps |-> 2, complete |-> TRUE],
                      [kind |-> "gif", fps |-> 2, complete |-> TRUE]}
    /\ imageDir \in MainDirs
    /\ Idle

\* handle_existing_output: nothing to handle.
NoExistingOutput ==
    /\ pc = "start" /\ ~OutputNotEmpty
    /\ pc' = "ask_duration"
    /\ UNCHANGED <<dirs, files, choice, imageDir, duration_str, target_duration,
                   fps_str, fps_options, processed_images, cur, calls, writers,
                   out, err>>

\* handle_existing_output: the old output is moved to the archive.
ArchiveOutput ==
    /\ pc = "start" /\ OutputNotEmpty
    /\ \E line \in ChoiceLines :
          Lower(line) \in {<<"a">>, <<"a", "r", "c", "h", "i", "v", "e">>}
    /\ dirs' = (dirs \ OutputDirs) \cup {"output_archive"}
    /\ files' = {}
    /\ choice' = None
    /\ pc' = "ask_duration"
    /\ UNCHANGED <<imageDir, duration_str, target_duration, fps_str, fps_options,
                   processed_images, cur, calls, writers, out, err>>

\* handle_existing_output: the old output is deleted.
DeleteOutput ==
    /\ pc = "start" /\ OutputNotEmpty
    /\ \E line \in ChoiceLines :
          Lower(line) \in {<<"d">>, <<"d", "e", "l", "e", "t", "e">>}
    /\ dirs' = dirs \ OutputDirs
    /\ files' = {}
    /\ choice' = None
    /\ pc' = "ask_duration"
    /\ UNCHANGED <<imageDir, duration_str, target_duration, fps_str, fps_options,
                   processed_images, cur, calls, writers, out, err>>

\* handle_existing_output: any other answer asks again.
InvalidChoice ==
    /\ pc = "start" /\ OutputNotEmpty
    /\ \E line \in ChoiceLines :
          /\ Lower(line) \notin {<<"a">>, <<"a", "r", "c", "h", "i", "v", "e">>,
                                 <<"d">>, <<"d", "e", "l", "e", "t", "e">>}
          /\ choice' = Some(Lower(line))
    /\ UNCHANGED <<pc, dirs, files, imageDir, duration_str, target_duration,
                   fps_str, fps_options, processed_images, cur, calls, writers,
                   out, err>>

\* Line 139, with a non-negative duration let through.
AcceptDurationNonNegative(n) == n >= 0

\* Line 139: the duration that ends the prompt loop.
AcceptDuration(n) == n > 0

\* Lines 135-143: one round of the duration prompt.
ReadDuration ==
    /\ pc = "ask_duration"
    /\ \E line \in DurationLines :
          LET p == ParseInt(line)
          IN /\ duration_str' = Some(line)
             /\ IF p = None
                THEN UNCHANGED <<target_duration, pc>>          \* ValueError
                ELSE /\ target_duration' = p
                     /\ pc' = IF AcceptDuration(Val(p)) THEN "ask_fps" ELSE "ask_duration"
    /\ UNCHANGED <<dirs, files, choice, imageDir, fps_str, fps_options,
                   processed_images, cur, calls, writers, out, err>>

\* Line 150: the speeds that end the prompt loop.
AcceptFps(options) == \A k \in 1..Len(options) : options[k] > 0

\* Lines 146-154: one round of the speeds prompt.
ReadFps ==
    /\ pc = "ask_fps"
    /\ \E line \in FpsLines :
          LET p == ParseFpsList(line)
          IN /\ fps_str' = Some(line)
             /\ IF p = None
                THEN UNCHANGED <<fps_options, pc>>              \* ValueError
                ELSE /\ fps_options' = p
                     /\ pc' = IF AcceptFps(Val(p)) THEN "process_images" ELSE "ask_fps"
    /\ UNCHANGED <<dirs, files, choice, imageDir, duration_str, target_duration,
                   processed_images, cur, calls, writers, out, err>>

\* Lines 157-160: the frames are loaded, or main returns.
LoadImages ==
    /\ pc = "process_images"
    /\ LET loaded == process_images(imageDir)
       IN /\ processed_images' = loaded
          /\ IF loaded = None \/ Val(loaded) = <<>>
             THEN /\ out' = Append(out, <<"exiting", 0>>)
                  /\ pc' = "exited"
             ELSE /\ out' = out
                  /\ pc' = "makedirs"
    /\ UNCHANGED <<dirs, files, choice, imageDir, duration_str, target_duration,
                   fps_str, fps_options, cur, calls, writers, err>>

\* Lines 163-166.
MakeDirs ==
    /\ pc = "makedirs"
    /\ dirs' = dirs \cup OutputDirs
    /\ cur' = 1
    /\ pc' = "loop"
    /\ UNCHANGED <<files, choice, imageDir, duration_str, target_duration, fps_str,
                   fps_options, processed_images, calls, writers, out, err>>

\* Lines 169-173 and 83-102: the next speed is taken and create_mp4 sets its
\* locals.  A zero speed or an empty frame list ends the run in the division.
BeginMp4 ==
    /\ pc = "loop" /\ cur <= Len(Val(fps_options))
    /\ LET view_fps == Val(fps_options)[cur]
           num_frames == Len(Val(processed_images))
       IN /\ out' = Append(out, <<"mp4_begin", view_fps>>)
          /\ IF view_fps = 0 \/ num_frames = 0
             THEN /\ pc' = "crashed"
                  /\ err' = "ZeroDivisionError"
                  /\ calls' = calls
             ELSE /\ pc' = "get_writer"
                  /\ err' = err
                  /\ calls' = Append(calls,
                                [plan |-> RenderPlan(view_fps, Val(target_duration), num_frames),
                                 loop |-> 0, img |-> 0, rep |-> 0])
    /\ UNCHANGED <<dirs, files, choice, imageDir, duration_str, target_duration,
                   fps_str, fps_options, processed_images, cur, writers>>

\* Lines 104-109: the writer is made.
OpenWriter ==
    /\ pc = "get_writer"
    /\ LET c == calls[Len(calls)]
       IN writers' = Append(writers, [view_fps |-> c.plan.view_fps,
                                      fps |-> c.plan.encode_fps,
                                      data |-> <<>>,
                                      open |-> TRUE])
    /\ pc' = "mp4_write"
    /\ UNCHANGED <<dirs, files, choice, imageDir, duration_str, target_duration,
                   fps_str, fps_options, processed_images, cur, calls, out, err>>

\* Lines 104-109: imageio.get_writer raises; nothing catches it.
OpenWriterFail ==
    /\ pc = "get_writer"
    /\ pc' = "crashed"
    /\ err' = "IOError"
    /\ UNCHANGED <<dirs, files, choice, imageDir, duration_str, target_duration,
                   fps_str, fps_options, processed_images, cur, calls, writers, out>>

\* Lines 110-113: whether the three nested loops have an iteration left.
HasNext(c) ==
    c.loop < c.plan.num_loops /\ c.plan.num_frames > 0 /\ c.plan.repeat_factor > 0

\* The loops with the repetition outermost: a whole pass per repetition.
NextPositionInterleaved(c) ==
    IF c.img + 1 < c.plan.num_frames THEN [c EXCEPT !.img = @ + 1]
    ELSE IF c.rep + 1 < c.plan.repeat_factor THEN [c EXCEPT !.img = 0, !.rep = @ + 1]
    ELSE [c EXCEPT !.img = 0, !.rep = 0, !.loop = @ + 1]

\* Lines 110-113: the iteration after the current one.
NextPosition(c) ==
    IF c.rep + 1 < c.plan.repeat_factor THEN [c EXCEPT !.rep = @ + 1]
    ELSE IF c.img + 1 < c.plan.num_frames THEN [c EXCEPT !.rep = 0, !.img = @ + 1]
    ELSE [c EXCEPT !.rep = 0, !.img = 0, !.loop = @ + 1]

\* Line 114: one frame is appended.  The encoder starts with the first
\* frame and overwrites what was at the path.
AppendData ==
    /\ pc = "mp4_write" /\ HasNext(calls[Len(calls)])
    /\ LET c == calls[Len(calls)]
       IN /\ writers' = [writers EXCEPT ![Len(writers)].data =
                            Append(@, Val(processed_images)[c.img + 1])]
          /\ calls' = [calls EXCEPT ![Len(calls)] = NextPosition(c)]
          /\ files' = SetFile(files, "mp4", c.plan.view_fps, FALSE)
    /\ UNCHANGED <<pc, dirs, choice, imageDir, duration_str, target_duration,
                   fps_str, fps_options, processed_images, cur, out, err>>

\* The failed append caught and the next speed taken up.
AppendFailContinue ==
    /\ pc = "mp4_write" /\ HasNext(calls[Len(calls)])
    /\ writers' = [writers EXCEPT ![Len(writers)].open = FALSE]
    /\ cur' = cur + 1
    /\ pc' = "loop"
    /\ UNCHANGED <<dirs, files, choice, imageDir, duration_str, target_duration,
                   fps_str, fps_options, processed_images, calls, out, err>>

\* The failed append leaving the block without the writer's __exit__.
AppendFailLeak ==
    /\ pc = "mp4_write" /\ HasNext(calls[Len(calls)])
    /\ pc' = "crashed"
    /\ err' = "IOError"
    /\ UNCHANGED <<dirs, files, choice, imageDir, duration_str, target_duration,
                   fps_str, fps_options, processed_images, cur, calls, writers, out>>

\* Line 114 raises: the with statement closes the writer on the way out and
\* nothing catches the exception.
AppendFail ==
    /\ pc = "mp4_write" /\ HasNext(calls[Len(calls)])
    /\ writers' = [writers EXCEPT ![Len(writers)].open = FALSE]
    /\ pc' = "crashed"
    /\ err' = "IOError"
    /\ UNCHANGED <<dirs, files, choice, imageDir, duration_str, target_duration,
                   fps_str, fps_options, processed_images, cur, calls, out>>

\* Lines 109-116: the loops are done, the with statement closes the writer.
CloseWriter ==
    /\ pc = "mp4_write" /\ ~HasNext(calls[Len(calls)])
    /\ writers' = [writers EXCEPT ![Len(writers)].open = FALSE]
    /\ files' = SetFile(files, "mp4", calls[Len(calls)].plan.view_fps, TRUE)
    /\ out' = Append(out, <<"mp4_done", calls[Len(calls)].plan.view_fps>>)
    /\ pc' = "gif"
    /\ UNCHANGED <<dirs, choice, imageDir, duration_str, target_duration, fps_str,
                   fps_options, processed_images, cur, calls, err>>

\* Lines 174 and 118-123: the GIF is saved and the loop moves on.
CreateGif ==
    /\ pc = "gif"
    /\ LET fps == Val(fps_options)[cur]
       IN /\ out' = out \o <<<<"gif_begin", fps>>, <<"gif_done", fps>>>>
          /\ files' = SetFile(files, "gif", fps, TRUE)
    /\ cur' = cur + 1
    /\ pc' = "loop"
    /\ UNCHANGED <<dirs, choice, imageDir, duration_str, target_duration, fps_str,
                   fps_options, processed_images, calls, writers, err>>

\* Line 122 raises, before or after the file was opened for writing; nothing
\* catches it.
GifFail ==
    /\ pc = "gif"
    /\ LET fps == Val(fps_options)[cur]
       IN /\ out' = Append(out, <<"gif_begin", fps>>)
          /\ files' \in {files, SetFile(files, "gif", fps, FALSE)}
    /\ pc' = "crashed"
    /\ err' = "IOError"
    /\ UNCHANGED <<dirs, choice, imageDir, duration_str, target_duration, fps_str,
                   fps_options, processed_images, cur, calls, writers>>

\* Line 176.
Finish ==
    /\ pc = "loop" /\ cur > Len(Val(fps_options))
    /\ out' = Append(out, <<"finished", 0>>)
    /\ pc' = "done"
    /\ UNCHANGED <<dirs, files, choice, imageDir, duration_str, target_duration,
                   fps_str, fps_options, processed_images, cur, calls, writers, err>>

Next ==
    \/ NoExistingOutput \/ ArchiveOutput \/ DeleteOutput \/ InvalidChoice
    \/ ReadDuration \/ ReadFps
    \/ LoadImages \/ MakeDirs
    \/ BeginMp4 \/ OpenWriter \/ OpenWriterFail
    \/ AppendData \/ AppendFail \/ CloseWriter
    \/ CreateGif \/ GifFail
    \/ Finish

Spec == Init /\ [][Next]_vars

(***************************************************************************)
(* The timing arithmetic on its own: main() stands at the head of its loop *)
(* with one speed, a duration and a frame sequence, and create_mp4 sets    *)
(* its locals.                                                             *)
(***************************************************************************)
SchedInit ==
    \E F \in 1..MaxViewFPS, T \in 1..MaxTargetDuration, N \in 1..MaxNumFrames :
        /\ pc = "loop"
        /\ dirs = OutputDirs /\ files = {}
        /\ choice = None
        /\ imageDir = [exists |-> TRUE,
                       entries |-> [i \in 1..N |-> Entry(FrameName(i), TRUE, 100)]]
        /\ duration_str = Some(Decimal(T)) /\ target_duration = Some(T)
        /\ fps_str = Some(Decimal(F)) /\ fps_options = Some(<<F>>)
        /\ processed_images =
              Some([i \in 1..N |-> [name |-> FrameName(i), size |-> <<100, 100>>,
                                    mode |-> "RGBA"]])
        /\ cur = 1 /\ calls = <<>> /\ writers = <<>>
        /\ out = <<>> /\ err = ""

SchedNext == BeginMp4

SchedSpec == SchedInit /\ [][SchedNext]_vars

(***************************************************************************)
(* The loader on its own: main() is about to call process_images on a      *)
(* folder of LoaderDirs.                                                   *)
(***************************************************************************)
LoaderInit ==
    /\ pc = "process_images"
    /\ dirs = {} /\ files = {}
    /\ choice = None
    /\ imageDir \in LoaderDirs
    /\ duration_str = Some(Decimal(1)) /\ target_duration = Some(1)
    /\ fps_str = Some(Decimal(2)) /\ fps_options = Some(<<2>>)
    /\ processed_images = None
    /\ cur = 0 /\ calls = <<>> /\ writers = <<>>
    /\ out = <<>> /\ err = ""

LoaderNext == LoadImages

LoaderSpec == LoaderInit /\ [][LoaderNext]_vars


(***************************************************************************)
(* Properties                                                              *)
(***************************************************************************)
Opts == Val(fps_options)
Images == Val(processed_images)

\* a / b rounded to the nearest integer, an exact half to the even one
\* (a >= 0, b > 0), in exact arithmetic.
RoundHalfEven(a, b) ==
    LET q == a \div b
        r == a % b
    IN IF 2 * r > b THEN q + 1
       ELSE IF 2 * r < b THEN q
       ELSE q + (q % 2)

Abs(x) == IF x < 0 THEN 0 - x ELSE x

\* C1: a speed below 10 is encoded at 24 with each frame repeated
\* ceil(24 / speed) times, a speed of 10 or more is encoded as it is with no
\* repetition; 24 gives (24, 1) and 2 gives (24, 12).
C1_EncodeAndRepeat ==
    \A i \in 1..Len(calls) :
        LET p == calls[i].plan
            F == p.view_fps
        IN /\ F = Opts[i]
           /\ F < 10 => /\ p.encode_fps = 24
                        /\ p.repeat_factor * F >= 24
                        /\ (p.repeat_factor - 1) * F < 24
           /\ F >= 10 => p.encode_fps = F /\ p.repeat_factor = 1
           /\ F = 24 => p.encode_fps = 24 /\ p.repeat_factor = 1
           /\ F = 2 => p.encode_fps = 24 /\ p.repeat_factor = 12

C1_Witness ==
    /\ pc = "get_writer"
    /\ calls[1].plan.view_fps = 2
    /\ calls[1].plan.encode_fps = 24
    /\ calls[1].plan.repeat_factor = 12

\* C2: the loop count is max(1, round(duration * speed / frames)) with the
\* quotient taken exactly and an exact half rounded to the even integer.
C2_LoopCountExact ==
    \A i \in 1..Len(calls) :
        LET p == calls[i].plan
        IN p.num_loops =
              Max(1, RoundHalfEven(Val(target_duration) * p.view_fps, p.num_frames))

\* C3: the encoded duration, loops * frames * repeat / encode_fps, is within
\* one pass (frames * repeat / encode_fps) of the target duration.
C3_RoundTrip ==
    \A i \in 1..Len(calls) :
        LET p == calls[i].plan
            pass == p.num_frames * p.repeat_factor
        IN Abs(p.num_loops * pass - Val(target_duration) * p.encode_fps) <= pass

\* C4: distinct source frames are shown at the requested speed:
\* repeat_factor * view_fps = encode_fps.
C4_PerceivedSpeed ==
    \A i \in 1..Len(calls) :
        LET p == calls[i].plan
        IN p.repeat_factor * p.view_fps = p.encode_fps

\* The create_mp4 calls that returned: each printed its success line.
Mp4Returned == Len(SelectSeq(out, LAMBDA e : e[1] = "mp4_done"))

\* C5: the k-th frame appended to a writer is source frame
\* (k div repeat_factor) mod num_frames, a call that returns has appended
\* exactly num_loops * num_frames * repeat_factor frames, and the loaded
\* frame sequence stays as the loader returned it.
C5_FramesAppended ==
    /\ Len(writers) <= Len(calls)
    /\ \A i \in 1..Len(writers) :
          LET w == writers[i]
              p == calls[i].plan
              total == p.num_loops * p.num_frames * p.repeat_factor
          IN /\ p.num_frames = Len(Images)
             /\ \A k \in 0..(Len(w.data) - 1) :
                   w.data[k + 1] = Images[((k \div p.repeat_factor) % p.num_frames) + 1]
             /\ Len(w.data) <= total
             /\ i <= Mp4Returned => Len(w.data) = total
    /\ processed_images # None => processed_images = process_images(imageDir)

C5_Witness ==
    /\ pc = "gif"
    /\ LET p == calls[Len(calls)].plan
       IN /\ p.num_loops >= 2 /\ p.num_frames >= 2 /\ p.repeat_factor >= 2
          /\ Len(writers[Len(writers)].data) =
                p.num_loops * p.num_frames * p.repeat_factor

PngNames == {imageDir.entries[i].name : i \in {j \in 1..Len(imageDir.entries) :
                                                 IsPng(imageDir.entries[j])}}

NamesOf(frames) == [i \in 1..Len(frames) |-> frames[i].name]

\* C6: the loader returns the .png files, and only them, in ascending order
\* of the number their first run of digits spells; a folder listed as
\* f-10.png, f-2.png, f-1.png loads as f-1, f-2, f-10.
C6_NumericOrder ==
    /\ processed_images # None =>
          /\ \A i, j \in 1..Len(Images) :
                i < j => SortKey(Images[i].name) <= SortKey(Images[j].name)
          /\ {Images[i].name : i \in 1..Len(Images)} = PngNames
          /\ Len(Images) = Cardinality(PngNames)
          /\ NamesOf(imageDir.entries) = <<FrameName(10), FrameName(2), FrameName(1)>>
                => NamesOf(Images) = <<FrameName(1), FrameName(2), FrameName(10)>>
    /\ (/\ pc # "process_images"
        /\ imageDir.exists
        /\ PngNames # {}
        /\ \A i \in 1..Len(imageDir.entries) :
              IsPng(imageDir.entries[i]) =>
                  /\ imageDir.entries[i].readable
                  /\ \E k \in 1..Len(imageDir.entries[i].name) :
                        IsDigit(imageDir.entries[i].name[k]))
          => processed_images # None

C6_Witness ==
    /\ pc = "makedirs"
    /\ NamesOf(imageDir.entries) = <<FrameName(10), FrameName(2), FrameName(1)>>
    /\ NamesOf(Images) = <<FrameName(1), FrameName(2), FrameName(10)>>

\* The folders the loader cannot load: missing, without a .png file, with a
\* .png name that holds no digit, or with a .png file that does not decode.
LoaderMustFail(dir) ==
    \/ ~dir.exists
    \/ \A i \in 1..Len(dir.entries) : ~IsPng(dir.entries[i])
    \/ \E i \in 1..Len(dir.entries) :
          /\ IsPng(dir.entries[i])
          /\ \/ \A k \in 1..Len(dir.entries[i].name) : ~IsDigit(dir.entries[i].name[k])
             \/ ~dir.entries[i].readable

\* C7: with such a folder process_images returns no frames and main ends
\* there: no output directory is made, no artifact written, and neither
\* create_mp4 nor create_gif is called.
C7_InputFailureAborts ==
    LoaderMustFail(imageDir) =>
        /\ processed_images = None
        /\ pc \in {"start", "ask_duration", "ask_fps", "process_images", "exited"}
        /\ cur = 0 /\ calls = <<>> /\ writers = <<>>
        /\ pc = "exited" =>
              /\ dirs \cap {"output/mp4", "output/gif"} = {}
              /\ files = {}
              /\ out = <<<<"exiting", 0>>>>
              /\ ~ENABLED Next

C7_Witness ==
    /\ pc = "exited"
    /\ \E i \in 1..Len(imageDir.entries) :
          IsPng(imageDir.entries[i]) /\ ~imageDir.entries[i].readable

\* A line int() takes for a positive number.
TypedPositive(line) == ParseInt(line) # None /\ Val(ParseInt(line)) >= 1

\* C8: create_mp4 and create_gif are only ever called with a duration of at
\* least 1, speeds of at least 1 and at least one frame, no division by
\* zero ends the run, and a line that is no positive integer (a list with
\* such a piece) leaves main at the same prompt.
C8_SchedulerPreconditions ==
    /\ pc \in {"loop", "get_writer", "mp4_write", "gif", "done", "crashed"} =>
          /\ Val(target_duration) >= 1
          /\ Len(Opts) >= 1
          /\ \A k \in 1..Len(Opts) : Opts[k] >= 1
          /\ Len(Images) >= 1
    /\ \A i \in 1..Len(calls) :
          calls[i].plan.view_fps >= 1 /\ calls[i].plan.num_frames >= 1
    /\ err # "ZeroDivisionError"
    /\ (duration_str # None /\ ~TypedPositive(Val(duration_str)))
          => pc = "ask_duration"
    /\ (fps_str # None /\ \E k \in 1..Len(Split(Val(fps_str), ",")) :
                             ~TypedPositive(Split(Val(fps_str), ",")[k]))
          => pc = "ask_fps"

C8_Witness ==
    /\ pc = "mp4_write"
    /\ Len(Opts) = 2 /\ cur = 2
    /\ Val(duration_str) = <<" ", "1", " ">>

\* The progress lines of a run that got to the loop: four per speed, in the
\* order the speeds were entered, and the closing line after the last.
EventNames == <<"mp4_begin", "mp4_done", "gif_begin", "gif_done">>

InOrder ==
    \A n \in 1..Len(out) :
        IF n <= 4 * Len(Opts)
        THEN out[n] = <<EventNames[((n - 1) % 4) + 1], Opts[((n - 1) \div 4) + 1]>>
        ELSE n = 4 * Len(Opts) + 1 /\ out[n] = <<"finished", 0>> /\ pc = "done"

\* The artifact whose write raised: the video while only its first line is
\* out, else the GIF.
FailedKind == IF Len(out) = 4 * (cur - 1) + 1 THEN "mp4" ELSE "gif"

\* What a failed write leaves: the run has ended, nothing was started for a
\* later speed (nor the GIF after a failed video), the closing line was not
\* printed, and the artifacts of the earlier speeds, all or all but those
\* at the path of the failed write, are complete.
AbortsAfterFailure(sparePath) ==
    pc = "crashed" =>
        /\ ~ENABLED Next
        /\ InOrder
        /\ Len(out) \in {4 * (cur - 1) + 1, 4 * (cur - 1) + 3}
        /\ \A n \in 1..Len(out) : out[n][1] # "finished"
        /\ \A f \in files : \E k \in 1..cur : f.fps = Opts[k]
        /\ FailedKind = "mp4" =>
              \A f \in files : (f.kind = "gif" /\ f.fps = Opts[cur]) =>
                  \E k \in 1..(cur - 1) : Opts[k] = Opts[cur]
        /\ \A k \in 1..(cur - 1) : \A kind \in {"mp4", "gif"} :
              (sparePath /\ kind = FailedKind /\ Opts[k] = Opts[cur])
                  \/ [kind |-> kind, fps |-> Opts[k], complete |-> TRUE] \in files

\* C9 as amended: a failed write ends the run at once; the artifacts completed
\* for the earlier speeds remain, except one at the very path of the failed
\* write (an earlier occurrence of the same speed), which that write may
\* have overwritten.
C9_AbortKeepsOtherPaths == AbortsAfterFailure(TRUE)

\* C9: a failed write ends the run at once and every artifact completed for
\* an earlier speed remains in place.
C9_AbortKeepsEarlier == AbortsAfterFailure(FALSE)

C9_Witness ==
    /\ pc = "crashed" /\ cur = 2
    /\ Opts[1] # Opts[2]
    /\ FailedKind = "mp4"
    /\ Len(writers) = 2 /\ writers[2].data # <<>>
    /\ [kind |-> "mp4", fps |-> Opts[1], complete |-> TRUE] \in files
    /\ [kind |-> "gif", fps |-> Opts[1], complete |-> TRUE] \in files

\* C10: the speeds are rendered in the order entered, the video and then
\* the GIF of one before the next is begun; at most one video writer is
\* open at any moment, and none is open outside the with block: not when
\* the GIF is started, nor at the next speed, nor when the run has ended,
\* by success or by a failed append.
C10_SequentialScopedWriters ==
    /\ Cardinality({i \in 1..Len(writers) : writers[i].open}) <= 1
    /\ pc # "mp4_write" => \A i \in 1..Len(writers) : ~writers[i].open
    /\ pc = "mp4_write" => Len(writers) = cur /\ writers[cur].open
    /\ \A i \in 1..Len(writers) : writers[i].view_fps = Opts[i]
    /\ pc \in {"loop", "get_writer", "mp4_write", "gif", "done", "crashed"} => InOrder
    /\ pc = "loop" => Len(out) = 4 * (cur - 1)
    /\ pc \in {"get_writer", "mp4_write"} => Len(out) = 4 * (cur - 1) + 1
    /\ pc = "gif" => Len(out) = 4 * (cur - 1) + 2
    /\ pc = "done" => Len(out) = 4 * Len(Opts) + 1

C10_Witness ==
    /\ pc = "mp4_write" /\ cur = 2
    /\ ~writers[1].open /\ writers[2].open
    /\ writers[2].data # <<>>
    /\ Len(out) = 5

====
